---- MODULE Spec2Model ----
(***************************************************************************)
(* Model of the media-derivative pipeline of skinmenu:                     *)
(*   media_derivatives/worker.py    transcode_document_video (the job)     *)
(*   media_derivatives/signals.py   on_document_saved (the trigger)        *)
(*   media_derivatives/management/commands/backfill_video_derivatives.py   *)
(*   media_derivatives/templatetags/media_derivatives_tags.py (the cache)  *)
(*   media_derivatives/views.py     derivatives_status                     *)
(*                                                                         *)
(* One Document and one profile ("hero_mobile_v1") are modelled; every     *)
(* queryset of the code filters on that (document, profile), so a row of   *)
(* the ledger carries only its kind.  Timestamps (started_at, finished_at, *)
(* updated_at) are not modelled.                                           *)
(***************************************************************************)
EXTENDS Integers, Sequences, FiniteSets, TLC

(* ---------------------------- bounds ----------------------------------- *)
NumWorkers == 2      \* worker processes pulling from the RQ queue
MaxJobs == 2         \* jobs ever enqueued (trigger + backfill runs)
MaxTimeout == 2      \* largest timeout_seconds, in polling intervals of 0.1 s
MaxWrite == 4        \* most characters the child writes at once

(* ------------------------ program constants ---------------------------- *)
ErrMax == 1000       \* error_msg[:1000]
DocId == 42

Workers == 1..NumWorkers

PENDING == "pending"
PROCESSING == "processing"
READY == "ready"
FAILED == "failed"
Status == {PENDING, PROCESSING, READY, FAILED}

MP4 == "mp4"
WEBM == "webm"
Kinds == {MP4, WEBM}

VIDEO_EXTS == {".mp4", ".mov", ".webm", ".m4v", ".avi", ".mkv", ".wmv", ".mpg", ".mpeg"}

profile_slug == "hero_mobile_v1"

(* --------------------------- file paths -------------------------------- *)
\* A path is a sequence of components below "/".  MEDIA_ROOT is /media.
MEDIA_ROOT == <<"media">>

\* Symbolic links present on the file system: component name -> target path.
Symlinks == [link |-> <<"srv", "other">>]

\* The files that exist on disk (real paths).
ExistingFiles == { <<"media", "documents", "clip.mp4">>,
                   <<"media", "documents", "notes.pdf">>,
                   <<"srv", "other", "clip.mp4">>,
                   <<"etc", "clip.mp4">> }

\* doc.file.path of the documents an operator may upload.
DocPaths == { <<"media", "documents", "clip.mp4">>,
              <<"media", "documents", "gone.mp4">>,
              <<"media", "documents", "notes.pdf">>,
              <<"media", "link", "clip.mp4">>,
              <<"media", "..", "etc", "clip.mp4">> }

\* os.path.realpath: resolve "..", "." and symbolic links, left to right.
RECURSIVE Resolve(_, _)
Resolve(done, rest) ==
    IF rest = <<>> THEN done
    ELSE LET c == Head(rest) IN
         IF c = "." THEN Resolve(done, Tail(rest))
         ELSE IF c = ".." THEN
              Resolve(IF done = <<>> THEN <<>> ELSE SubSeq(done, 1, Len(done) - 1), Tail(rest))
         ELSE IF c \in DOMAIN Symlinks THEN Resolve(Symlinks[c], Tail(rest))
         ELSE Resolve(Append(done, c), Tail(rest))

realpath(p) == Resolve(<<>>, p)

\* real_input_path.startswith(media_root + os.sep)
InsideMediaRoot(p) ==
    LET root == realpath(MEDIA_ROOT)
        real == realpath(p)
    IN  /\ Len(real) > Len(root)
        /\ SubSeq(real, 1, Len(root)) = root

isfile(p) == realpath(p) \in ExistingFiles

\* os.path.splitext(name.lower())[1] for the names used here.
lower(c) ==
    CASE c = "M" -> "m" [] c = "P" -> "p" [] c = "O" -> "o" [] c = "V" -> "v"
      [] OTHER -> c

RECURSIVE LowerStr(_)
LowerStr(s) == IF Len(s) = 0 THEN "" ELSE lower(SubSeq(s, 1, 1)) \o LowerStr(SubSeq(s, 2, Len(s)))

LastDot(s) ==
    LET dots == { i \in 2..Len(s) : SubSeq(s, i, i) = "." }
    IN  IF dots = {} THEN 0 ELSE CHOOSE i \in dots : \A j \in dots : j <= i

splitext_ext(name) ==
    LET s == LowerStr(name)
        d == LastDot(s)
    IN  IF d = 0 THEN "" ELSE SubSeq(s, d, Len(s))

basename(p) == IF p = <<>> THEN "" ELSE p[Len(p)]

_is_video_document(p) == splitext_ext(basename(p)) \in VIDEO_EXTS

(* --------------------------- text helpers ------------------------------ *)
Contains(s, w) ==
    \E i \in 1..(Len(s) - Len(w) + 1) : SubSeq(s, i, i + Len(w) - 1) = w

\* s[:n]
Trunc(s, n) == IF Len(s) <= n THEN s ELSE SubSeq(s, 1, n)

Max(a, b) == IF a >= b THEN a ELSE b
Min(a, b) == IF a <= b THEN a ELSE b

(* ------------------------------ state ---------------------------------- *)
VARIABLES
    doc,              \* doc.file.path of the Document, <<>> before it is saved
    ledger,           \* the VideoDerivative table: a set of rows
    queue,            \* the RQ queue "default": job ids, oldest first
    next_job,         \* number of jobs enqueued so far (job ids are 1, 2, ...)
    cache,            \* the cache entry hero_video_sources:v1:doc:42:profile:...
    images,           \* number of wagtail Image rows (poster images)
    files,            \* derivative files held by the storage
    pc_tr, tr_job,    \* on_document_saved: position, and the job it enqueued
    pc_bf, dry_run, existing_by_kind, created_any, bf_job, queued, skipped,
                                       \* the backfill command and its locals
    pc, claimed_count, mp4, webm, poster_img, duration_ms,
    spawned,                           \* per worker: transcode_document_video
    pc_rd, data,                       \* hero_video_sources: position, result
    run_at, now, timeout_ticks, proc, returncode, reaped, stream, pipe,
    buffer, sink, raised,              \* one call of _run_with_progress
    in_time,                           \* its child exited before the deadline
    output                             \* all that its child writes in its life

vars == << doc, ledger, queue, next_job, cache, images, files, pc_tr, tr_job,
           pc_bf, dry_run, existing_by_kind, created_any, bf_job, queued, skipped,
           pc, claimed_count, mp4, webm, poster_img, duration_ms,
           spawned, pc_rd, data,
           run_at, now, timeout_ticks, proc, returncode, reaped, stream, pipe,
           buffer, sink, raised, in_time, output >>

trigger_vars == << pc_tr, tr_job >>
backfill_vars == << pc_bf, dry_run, existing_by_kind, created_any, bf_job,
                    queued, skipped >>
worker_vars == << pc, claimed_count, mp4, webm, poster_img, duration_ms,
                  spawned >>
reader_vars == << pc_rd, data >>
run_vars == << run_at, now, timeout_ticks, proc, returncode, reaped, stream, pipe,
              buffer, sink, raised, in_time, output >>
pipeline_vars == << doc, ledger, queue, next_job, cache, images, files,
                    trigger_vars, backfill_vars, worker_vars, reader_vars >>

NoDoc == <<>>
\* cache.get(key) returning None: the entry is a sequence holding at most one dict.
NoCache == <<>>
EmptyView == [webm |-> "", mp4 |-> "", poster |-> ""]

\* A row that is not there (QuerySet.first() returning None).
NoRow == [pk |-> 0, kind |-> "", status |-> "", progress |-> 0, file |-> "",
          poster_image |-> 0, error |-> "", rq_job_id |-> 0]

\* VideoDerivative(...) with the field defaults of the model; rq_job_id 0 and
\* poster_image 0 stand for "" and NULL.  The primary key is the next
\* auto-increment value (rows are never deleted).
NewRow(kind) ==
    [pk |-> Cardinality(ledger) + 1, kind |-> kind, status |-> PENDING,
     progress |-> 0, file |-> "", poster_image |-> 0, error |-> "",
     rq_job_id |-> 0]

HasRow(kind) == \E r \in ledger : r.kind = kind

\* VideoDerivative.objects.filter(document=doc, profile_slug=..., kind=kind).first()
RowOf(kind) == IF HasRow(kind) THEN CHOOSE r \in ledger : r.kind = kind ELSE NoRow

RowByPk(id) == IF \E r \in ledger : r.pk = id
               THEN CHOOSE r \in ledger : r.pk = id ELSE NoRow

\* No _run_with_progress call is being followed.
RunOff ==
    /\ run_at = "off" /\ now = 0 /\ timeout_ticks = 0
    /\ proc = "none" /\ returncode = 0 /\ reaped = FALSE
    /\ stream = "" /\ pipe = "" /\ buffer = "" /\ sink = <<>> /\ raised = ""
    /\ in_time = FALSE /\ output = ""

InitPipeline ==
    /\ doc = NoDoc
    /\ ledger = {}
    /\ queue = <<>>
    /\ next_job = 0
    /\ cache = NoCache
    /\ images = 0
    /\ files = {}
    /\ pc_tr = "idle" /\ tr_job = 0
    /\ pc_bf = "idle" /\ dry_run = FALSE /\ existing_by_kind = {}
    /\ created_any = FALSE /\ bf_job = 0 /\ queued = 0 /\ skipped = 0
    /\ pc = [w \in Workers |-> "idle"]
    /\ claimed_count = [w \in Workers |-> 0]
    /\ mp4 = [w \in Workers |-> NoRow]
    /\ webm = [w \in Workers |-> NoRow]
    /\ poster_img = [w \in Workers |-> 0]
    /\ duration_ms = [w \in Workers |-> 0]
    /\ spawned = [w \in Workers |-> {}]
    /\ pc_rd = "idle" /\ data = EmptyView

Init == InitPipeline /\ RunOff

(* --------------------- signals.py: on_document_saved ------------------- *)
\* Document.save() of a new upload; post_save runs on_document_saved with
\* created=True.  A document that is not a video gets no derivative rows.
DocumentSave(p) ==
    /\ doc = NoDoc
    /\ doc' = p
    /\ pc_tr' = IF _is_video_document(p) THEN "ensure_mp4" ELSE "done"
    /\ UNCHANGED << ledger, queue, next_job, cache, images, files, tr_job,
                    backfill_vars, worker_vars, reader_vars, run_vars >>

\* An ensure that inserts without looking for the row.
get_or_create_AlwaysInsert(kind) == ledger \cup {NewRow(kind)}

\* VideoDerivative.objects.get_or_create(document, profile_slug, kind): the
\* unique constraint makes the creation a no-op when the row is there.
get_or_create(kind) == IF HasRow(kind) THEN ledger ELSE ledger \cup {NewRow(kind)}

TriggerEnsureMp4 ==
    /\ pc_tr = "ensure_mp4"
    /\ ledger' = get_or_create(MP4)
    /\ pc_tr' = "ensure_webm"
    /\ UNCHANGED << doc, queue, next_job, cache, images, files, tr_job,
                    backfill_vars, worker_vars, reader_vars, run_vars >>

\* A trigger that goes on to enqueue without ensuring the WebM row.
TriggerEnsureWebm_Skipped ==
    /\ pc_tr = "ensure_webm"
    /\ pc_tr' = "enqueue"
    /\ UNCHANGED << doc, ledger, queue, next_job, cache, images, files, tr_job,
                    backfill_vars, worker_vars, reader_vars, run_vars >>

TriggerEnsureWebm ==
    /\ pc_tr = "ensure_webm"
    /\ ledger' = get_or_create(WEBM)
    /\ pc_tr' = "enqueue"
    /\ UNCHANGED << doc, queue, next_job, cache, images, files, tr_job,
                    backfill_vars, worker_vars, reader_vars, run_vars >>

\* transaction.on_commit(_enqueue): q.enqueue(transcode_document_video, ...)
TriggerEnqueue ==
    /\ pc_tr = "enqueue"
    /\ next_job < MaxJobs
    /\ next_job' = next_job + 1
    /\ queue' = Append(queue, next_job + 1)
    /\ tr_job' = next_job + 1
    /\ pc_tr' = "stamp"
    /\ UNCHANGED << doc, ledger, cache, images, files,
                    backfill_vars, worker_vars, reader_vars, run_vars >>

\* VideoDerivative.objects.filter(document, profile_slug).update(rq_job_id=job.id)
StampJob(job) == { [r EXCEPT !.rq_job_id = job] : r \in ledger }

TriggerStamp ==
    /\ pc_tr = "stamp"
    /\ ledger' = StampJob(tr_job)
    /\ pc_tr' = "done"
    /\ tr_job' = 0
    /\ UNCHANGED << doc, queue, next_job, cache, images, files,
                    backfill_vars, worker_vars, reader_vars, run_vars >>

(* ---------------- backfill_video_derivatives: Command.handle ----------- *)
\* The command runs over the single document, so `scanned` is 1 in every run
\* and is not kept; `queued` and `skipped` are the counters behind the final
\* "done scanned=... queued=... skipped=... dry_run=..." line.
needs_work == \E r \in ledger : r.status \in {PENDING, FAILED}

\* The command returns (or dies): its locals are gone.
BackfillEnd ==
    /\ pc_bf' = "idle"
    /\ dry_run' = FALSE
    /\ existing_by_kind' = {}
    /\ created_any' = FALSE
    /\ bf_job' = 0
    /\ queued' = 0
    /\ skipped' = 0

\* The loop over the documents is over with these counters; the "done" line
\* is next.
LoopOver(dry, n, k) ==
    /\ pc_bf' = "done"
    /\ dry_run' = dry
    /\ queued' = n
    /\ skipped' = k
    /\ existing_by_kind' = {}
    /\ created_any' = FALSE
    /\ bf_job' = 0

\* A needs_work test that lets a dry run enqueue.
CheckAndEnqueue_DryIgnored(dry, created) ==
    IF ~created /\ ~needs_work
    THEN /\ LoopOver(dry, 0, 1)
         /\ UNCHANGED << queue, next_job >>
    ELSE /\ next_job < MaxJobs
         /\ next_job' = next_job + 1
         /\ queue' = Append(queue, next_job + 1)
         /\ bf_job' = next_job + 1
         /\ pc_bf' = "stamp"
         /\ dry_run' = FALSE
         /\ existing_by_kind' = {}
         /\ created_any' = FALSE
         /\ UNCHANGED << queued, skipped >>

\* The needs_work query and what follows it in the loop body: skipped += 1
\* (`continue`), the dry run's queued += 1 (`continue`), or q.enqueue.
CheckAndEnqueue(dry, created) ==
    IF ~created /\ ~needs_work
    THEN /\ LoopOver(dry, 0, 1)
         /\ UNCHANGED << queue, next_job >>
    ELSE IF dry
    THEN /\ LoopOver(dry, 1, 0)
         /\ UNCHANGED << queue, next_job >>
    ELSE /\ next_job < MaxJobs
         /\ next_job' = next_job + 1
         /\ queue' = Append(queue, next_job + 1)
         /\ bf_job' = next_job + 1
         /\ pc_bf' = "stamp"
         /\ dry_run' = FALSE
         /\ existing_by_kind' = {}
         /\ created_any' = FALSE
         /\ UNCHANGED << queued, skipped >>

\* One run of the command over the (single) document: the loop body up to
\* the snapshot of the existing rows.  A document that is not a video is
\* passed over by the extension test.  When both rows exist the creation
\* loop creates nothing and the needs_work query follows in the same step.
BackfillScan(dry) ==
    /\ pc_bf = "idle"
    /\ doc # NoDoc
    /\ IF splitext_ext(basename(doc)) \notin VIDEO_EXTS
       THEN /\ LoopOver(dry, 0, 0)
            /\ UNCHANGED << queue, next_job >>
       ELSE IF HasRow(MP4) /\ HasRow(WEBM)
       THEN CheckAndEnqueue(dry, FALSE)
       ELSE /\ pc_bf' = IF ~HasRow(MP4) THEN "create_mp4" ELSE "create_webm"
            /\ existing_by_kind' = { r.kind : r \in ledger }
            /\ dry_run' = dry
            /\ created_any' = FALSE
            /\ UNCHANGED << bf_job, queued, skipped, queue, next_job >>
    /\ UNCHANGED << doc, ledger, cache, images, files,
                    trigger_vars, worker_vars, reader_vars, run_vars >>

\* VideoDerivative.objects.create(...) for a kind missing from the snapshot.
\* When the row has appeared since the snapshot the unique constraint
\* rejects the insert and the command dies with IntegrityError.
BackfillCreate(kind, here, next) ==
    /\ pc_bf = here
    /\ IF kind \in existing_by_kind
       THEN /\ pc_bf' = next
            /\ UNCHANGED << ledger, created_any, dry_run, existing_by_kind,
                            bf_job, queued, skipped >>
       ELSE IF HasRow(kind)
       THEN /\ BackfillEnd
            /\ UNCHANGED ledger
       ELSE /\ ledger' = ledger \cup {NewRow(kind)}
            /\ created_any' = TRUE
            /\ pc_bf' = next
            /\ UNCHANGED << dry_run, existing_by_kind, bf_job, queued, skipped >>
    /\ UNCHANGED << doc, queue, next_job, cache, images, files,
                    trigger_vars, worker_vars, reader_vars, run_vars >>

BackfillCreateMp4 == BackfillCreate(MP4, "create_mp4", "create_webm")
BackfillCreateWebm == BackfillCreate(WEBM, "create_webm", "check")

\* The needs_work query after the creation loop.
BackfillCheck ==
    /\ pc_bf = "check"
    /\ CheckAndEnqueue(dry_run, created_any)
    /\ UNCHANGED << doc, ledger, cache, images, files,
                    trigger_vars, worker_vars, reader_vars, run_vars >>

\* update(rq_job_id=job.id) on the rows of the document, then queued += 1.
BackfillStamp ==
    /\ pc_bf = "stamp"
    /\ ledger' = StampJob(bf_job)
    /\ LoopOver(FALSE, 1, 0)
    /\ UNCHANGED << doc, queue, next_job, cache, images, files,
                    trigger_vars, worker_vars, reader_vars, run_vars >>

\* The "done ..." line is written and the command returns.
BackfillDone ==
    /\ pc_bf = "done"
    /\ BackfillEnd
    /\ UNCHANGED << doc, ledger, queue, next_job, cache, images, files,
                    trigger_vars, worker_vars, reader_vars, run_vars >>

(* ------------------- worker.py: transcode_document_video --------------- *)
POSTER_TIMEOUT == 30
MP4_TIMEOUT == 180
WEBM_TIMEOUT == 900

\* What ffprobe may do: exit status and the text it prints on stdout.
ProbeResults == { [rc |-> 0, out |-> "0.004"], [rc |-> 0, out |-> ""],
                  [rc |-> 0, out |-> "N/A"], [rc |-> 1, out |-> ""] }

\* out_time_ms values ffmpeg may report on its progress stream.
OutTimes == {0, 2}

\* How one ffmpeg stage may end: exit 0 with its output file written, a
\* nonzero exit, the hard timeout, or exit 0 with no (or an empty) output file.
Outcomes == {"ok", "exit", "timeout", "empty"}

Digits == {"0", "1", "2", "3", "4", "5", "6", "7", "8", "9"}

DigitVal(c) ==
    CASE c = "0" -> 0 [] c = "1" -> 1 [] c = "2" -> 2 [] c = "3" -> 3
      [] c = "4" -> 4 [] c = "5" -> 5 [] c = "6" -> 6 [] c = "7" -> 7
      [] c = "8" -> 8 [] c = "9" -> 9

\* float(out) accepts (among the outputs modelled) digits with at most one dot.
IsFloat(s) ==
    /\ \A i \in 1..Len(s) : SubSeq(s, i, i) \in Digits \cup {"."}
    /\ \E i \in 1..Len(s) : SubSeq(s, i, i) \in Digits
    /\ Cardinality({ i \in 1..Len(s) : SubSeq(s, i, i) = "." }) <= 1

RECURSIVE DigitsVal(_, _)
DigitsVal(s, acc) ==
    IF Len(s) = 0 THEN acc
    ELSE DigitsVal(SubSeq(s, 2, Len(s)), acc * 10 + DigitVal(SubSeq(s, 1, 1)))

\* int(float(s) * 1000) for a decimal numeral s
Millis(s) ==
    LET dots == { i \in 1..Len(s) : SubSeq(s, i, i) = "." }
        d == IF dots = {} THEN Len(s) + 1 ELSE CHOOSE i \in dots : TRUE
        whole == SubSeq(s, 1, d - 1)
        frac == SubSeq(s, d + 1, Len(s))
        frac3 == SubSeq(frac \o "000", 1, 3)
    IN  DigitsVal(whole, 0) * 1000 + DigitsVal(frac3, 0)

\* _probe_duration_seconds raises: CalledProcessError from check_output on a
\* nonzero exit, ValueError from float() on text that is not a number.
ProbeFails(res) == res.rc # 0 \/ (res.out # "" /\ ~IsFloat(res.out))

\* _probe_duration_seconds followed by max(1, int(duration_s * 1000))
_probe_duration_ms(res) == Max(1, IF res.out = "" THEN 0 ELSE Millis(res.out))

\* The text _kill_and_raise appends to its message (command abbreviated).
CmdTail == "\n\nCommand:\n  ffmpeg\n\nLast output (tail):\n\n"

\* The exception a stage raises: _run_with_progress (nonzero exit, timeout)
\* or the output-file check after it.
StageError(label, timeout, missing, outcome) ==
    CASE outcome = "exit" -> label \o " failed (exit 1)" \o CmdTail
      [] outcome = "timeout" ->
            label \o " timed out after " \o ToString(timeout) \o "s" \o CmdTail
      [] outcome = "empty" -> missing

\* min(99, int(out_time_ms / duration_ms * 100)), then max(5, pct)
ProgressPct(out_time_ms, dur) == Max(5, Min(99, (out_time_ms * 100) \div dur))

\* storage.get_available_name(_derived_upload_path(instance, filename)):
\* derived/videos/<doc>/<profile>/video.<kind>, made fresh when taken.
_derived_upload_path(kind) ==
    "derived/videos/" \o ToString(DocId) \o "/" \o profile_slug \o "/video." \o kind

AvailableName(kind) ==
    IF _derived_upload_path(kind) \notin files THEN _derived_upload_path(kind)
    ELSE "derived/videos/" \o ToString(DocId) \o "/" \o profile_slug \o "/video_"
         \o ToString(Cardinality(files)) \o "." \o kind

Free(w) == pc[w] = "idle"

\* The function has no further use for its locals and its child processes
\* have ended: what is left of it is the position `at`.
Leave(w, at) ==
    /\ pc' = [pc EXCEPT ![w] = at]
    /\ claimed_count' = [claimed_count EXCEPT ![w] = 0]
    /\ mp4' = [mp4 EXCEPT ![w] = NoRow]
    /\ webm' = [webm EXCEPT ![w] = NoRow]
    /\ poster_img' = [poster_img EXCEPT ![w] = 0]
    /\ duration_ms' = [duration_ms EXCEPT ![w] = 0]
    /\ spawned' = [spawned EXCEPT ![w] = {}]

\* The function ends (return or raise) and the worker is free again.
EndJob(w) == Leave(w, "idle")

\* The queue hands the oldest job to a free worker (the first free one: the
\* workers are interchangeable); the job begins with Document.objects.get.
Start(w) ==
    /\ Free(w)
    /\ \A v \in Workers : v < w => ~Free(v)
    /\ queue # <<>>
    /\ queue' = Tail(queue)
    /\ pc' = [pc EXCEPT ![w] = "claim"]
    /\ claimed_count' = [claimed_count EXCEPT ![w] = 0]
    /\ UNCHANGED << doc, ledger, next_job, cache, images, files,
                    mp4, webm, poster_img, duration_ms, spawned,
                    trigger_vars, backfill_vars, reader_vars, run_vars >>

\* A claim update whose filter is status=PENDING.
Claimable_PendingOnly(rows) == { r \in rows : r.kind \in {MP4, WEBM} /\ r.status = PENDING }

\* A claim update whose filter lacks status__in=[PENDING, FAILED].
Claimable_NoStatusFilter(rows) == { r \in rows : r.kind \in {MP4, WEBM} }

\* The rows the conditional bulk update matches.
Claimable(rows) == { r \in rows : r.kind \in {MP4, WEBM} /\ r.status \in {PENDING, FAILED} }

\* A claim update that leaves the error text of the rows it matches.
ClaimUpdate_KeepsError(rows) ==
    { IF r \in Claimable(rows)
      THEN [r EXCEPT !.status = PROCESSING, !.progress = 0]
      ELSE r : r \in rows }

\* A claim update that leaves the status of the rows it matches.
ClaimUpdate_KeepsStatus(rows) ==
    { IF r \in Claimable(rows)
      THEN [r EXCEPT !.progress = 0, !.error = ""]
      ELSE r : r \in rows }

ClaimUpdate(rows) ==
    { IF r \in Claimable(rows)
      THEN [r EXCEPT !.status = PROCESSING, !.progress = 0, !.error = ""]
      ELSE r : r \in rows }

\* A job that goes on to fetch the rows whatever the claim update reported.
Claim_NoEarlyReturn(w) ==
    /\ pc[w] = "claim"
    /\ ledger' = ClaimUpdate(ledger)
    /\ claimed_count' = [claimed_count EXCEPT ![w] = Cardinality(Claimable(ledger))]
    /\ pc' = [pc EXCEPT ![w] = "fetch"]
    /\ UNCHANGED << doc, queue, next_job, cache, images, files,
                    mp4, webm, poster_img, duration_ms, spawned,
                    trigger_vars, backfill_vars, reader_vars, run_vars >>

\* claimed_count = VideoDerivative.objects.filter(...).update(...); a count of
\* zero returns at once (the mp4_ready query only chooses the log line).
Claim(w) ==
    /\ pc[w] = "claim"
    /\ ledger' = ClaimUpdate(ledger)
    /\ claimed_count' = [claimed_count EXCEPT ![w] = Cardinality(Claimable(ledger))]
    /\ pc' = [pc EXCEPT ![w] = IF Cardinality(Claimable(ledger)) = 0
                               THEN "idle" ELSE "fetch"]
    /\ UNCHANGED << doc, queue, next_job, cache, images, files,
                    mp4, webm, poster_img, duration_ms, spawned,
                    trigger_vars, backfill_vars, reader_vars, run_vars >>

\* mp4 = ....first(); webm = ....first(); ValueError when one is missing.
Fetch(w) ==
    /\ pc[w] = "fetch"
    /\ IF RowOf(MP4) = NoRow \/ RowOf(WEBM) = NoRow
       THEN EndJob(w)
       ELSE /\ pc' = [pc EXCEPT ![w] = "path_check"]
            /\ mp4' = [mp4 EXCEPT ![w] = RowOf(MP4)]
            /\ webm' = [webm EXCEPT ![w] = RowOf(WEBM)]
            /\ UNCHANGED << claimed_count, poster_img, duration_ms, spawned >>
    /\ UNCHANGED << doc, ledger, queue, next_job, cache, images, files,
                    trigger_vars, backfill_vars, reader_vars, run_vars >>

\* A path check without the MEDIA_ROOT test.
PathCheck_NoRootTest(w) ==
    /\ pc[w] = "path_check"
    /\ IF ~isfile(doc)
       THEN EndJob(w)
       ELSE /\ pc' = [pc EXCEPT ![w] = "probing"]
            /\ spawned' = [spawned EXCEPT ![w] = @ \cup {"ffprobe"}]
            /\ UNCHANGED << claimed_count, mp4, webm, poster_img, duration_ms >>
    /\ UNCHANGED << doc, ledger, queue, next_job, cache, images, files,
                    trigger_vars, backfill_vars, reader_vars, run_vars >>

\* The realpath check against MEDIA_ROOT and the isfile check; when both
\* pass, check_output starts ffprobe.
PathCheck(w) ==
    /\ pc[w] = "path_check"
    /\ IF ~InsideMediaRoot(doc)
       THEN EndJob(w)
       ELSE IF ~isfile(doc)
       THEN EndJob(w)
       ELSE /\ pc' = [pc EXCEPT ![w] = "probing"]
            /\ spawned' = [spawned EXCEPT ![w] = @ \cup {"ffprobe"}]
            /\ UNCHANGED << claimed_count, mp4, webm, poster_img, duration_ms >>
    /\ UNCHANGED << doc, ledger, queue, next_job, cache, images, files,
                    trigger_vars, backfill_vars, reader_vars, run_vars >>

\* VideoDerivative.objects.filter(pk__in=[mp4.pk, webm.pk])
Mine(w, r) == r.pk \in {mp4[w].pk, webm[w].pk}

\* The "life sign": update(progress=1) on both rows
LifeSign(w) == { IF Mine(w, r) THEN [r EXCEPT !.progress = 1] ELSE r : r \in ledger }

\* ffprobe ends.  A failure propagates out of the function (the call is
\* before the try block); otherwise the life-sign update is made and the
\* poster ffmpeg is started.
ProbeReturn(w, res) ==
    /\ pc[w] = "probing"
    /\ IF ProbeFails(res)
       THEN /\ EndJob(w)
            /\ UNCHANGED ledger
       ELSE /\ duration_ms' = [duration_ms EXCEPT ![w] = _probe_duration_ms(res)]
            /\ ledger' = LifeSign(w)
            /\ spawned' = [spawned EXCEPT ![w] = @ \cup {"poster"}]
            /\ pc' = [pc EXCEPT ![w] = "poster_run"]
            /\ UNCHANGED << claimed_count, mp4, webm, poster_img >>
    /\ UNCHANGED << doc, queue, next_job, cache, images, files,
                    trigger_vars, backfill_vars, reader_vars, run_vars >>

\* job_timeout=60 * 30 of q.enqueue: RQ raises JobTimeoutException in a job
\* that is still running after 30 minutes.  The three ffmpeg stages end
\* within 30 + 180 + 900 s, so this can only happen while check_output waits
\* for ffprobe, which is before the try block: ffprobe is killed and the
\* exception leaves the function.
JobTimeout(w) ==
    /\ pc[w] = "probing"
    /\ EndJob(w)
    /\ UNCHANGED << doc, ledger, queue, next_job, cache, images, files,
                    trigger_vars, backfill_vars, reader_vars, run_vars >>

\* A _fail_all whose update reaches the MP4 row only.
_fail_all_Mp4Only(w, msg) ==
    { IF r.pk = mp4[w].pk
      THEN [r EXCEPT !.status = FAILED, !.error = msg, !.progress = 0]
      ELSE r : r \in ledger }

\* _fail_all(msg): the update of both rows.  Its cache.delete is the
\* step FailAllInvalidate.
_fail_all(w, msg) ==
    { IF Mine(w, r)
      THEN [r EXCEPT !.status = FAILED, !.error = msg, !.progress = 0]
      ELSE r : r \in ledger }

\* The outer except: _fail_all(f"Transcode failed: {e}"); raise
OuterExcept(w, e) ==
    /\ ledger' = _fail_all(w, "Transcode failed: " \o e)
    /\ Leave(w, "fail_all_invalidate")

\* update(poster_image_id=poster_img.id, progress=5) on both rows
AttachPoster(w, img) ==
    { IF Mine(w, r) THEN [r EXCEPT !.poster_image = img, !.progress = 5] ELSE r
      : r \in ledger }

\* The poster stage ends.  Success: poster_img.save(), the attach update,
\* and the MP4 ffmpeg is started.  Failure: the outer except.
PosterDone(w, outcome) ==
    /\ pc[w] = "poster_run"
    /\ IF outcome = "ok"
       THEN /\ images' = images + 1
            /\ poster_img' = [poster_img EXCEPT ![w] = images + 1]
            /\ ledger' = AttachPoster(w, images + 1)
            /\ spawned' = [spawned EXCEPT ![w] = @ \cup {"mp4"}]
            /\ pc' = [pc EXCEPT ![w] = "mp4_run"]
            /\ UNCHANGED << claimed_count, mp4, webm, duration_ms >>
       ELSE /\ OuterExcept(w, StageError("poster", POSTER_TIMEOUT,
                          "Poster output was not created or is empty.", outcome))
            /\ UNCHANGED images
    /\ UNCHANGED << doc, queue, next_job, cache, files,
                    trigger_vars, backfill_vars, reader_vars, run_vars >>

\* filter(pk=pk).update(progress=max(5, pct))
SetProgress(id, pct) ==
    { IF r.pk = id THEN [r EXCEPT !.progress = pct] ELSE r : r \in ledger }

\* mp4_progress(out_time_ms), called for an out_time_ms=<n> line.  A call
\* that writes the value the row already holds is not a step.
mp4_progress(w, out_time_ms) ==
    /\ pc[w] = "mp4_run"
    /\ ledger' = SetProgress(mp4[w].pk, ProgressPct(out_time_ms, duration_ms[w]))
    /\ UNCHANGED << doc, queue, next_job, cache, images, files,
                    worker_vars, trigger_vars, backfill_vars, reader_vars, run_vars >>

\* An object saved without progress = 100.
ReadyObject_NoProgress(obj, name, img) ==
    [obj EXCEPT !.file = name, !.poster_image = img, !.status = READY, !.error = ""]

\* The in-memory object after file.save(..., save=False) and the assignments
\* that precede obj.save().
ReadyObject(obj, name, img) ==
    [obj EXCEPT !.file = name, !.poster_image = img, !.status = READY,
                !.progress = 100, !.error = ""]

\* Model.save(): every column of the row is written from the object.
SaveObject(obj) == { IF r.pk = obj.pk THEN obj ELSE r : r \in ledger }

\* An MP4 stage whose failure is passed over: the job goes on to WebM.
Mp4Done_IgnoresFailure(w, outcome) ==
    /\ pc[w] = "mp4_run"
    /\ IF outcome = "ok"
       THEN /\ files' = files \cup {AvailableName(MP4)}
            /\ mp4' = [mp4 EXCEPT ![w] = ReadyObject(@, AvailableName(MP4), poster_img[w])]
            /\ ledger' = SaveObject(ReadyObject(mp4[w], AvailableName(MP4), poster_img[w]))
            /\ pc' = [pc EXCEPT ![w] = "mp4_invalidate"]
            /\ UNCHANGED << claimed_count, webm, poster_img, duration_ms, spawned >>
       ELSE /\ pc' = [pc EXCEPT ![w] = "mp4_invalidate"]
            /\ UNCHANGED << files, ledger, claimed_count, mp4, webm, poster_img,
                            duration_ms, spawned >>
    /\ UNCHANGED << doc, queue, next_job, cache, images,
                    trigger_vars, backfill_vars, reader_vars, run_vars >>

\* The MP4 stage ends.  Success: the transaction.atomic() block with
\* mp4.file.save and mp4.save().  Failure: the outer except.
Mp4Done(w, outcome) ==
    /\ pc[w] = "mp4_run"
    /\ IF outcome = "ok"
       THEN /\ files' = files \cup {AvailableName(MP4)}
            /\ mp4' = [mp4 EXCEPT ![w] = ReadyObject(@, AvailableName(MP4), poster_img[w])]
            /\ ledger' = SaveObject(ReadyObject(mp4[w], AvailableName(MP4), poster_img[w]))
            /\ pc' = [pc EXCEPT ![w] = "mp4_invalidate"]
            /\ UNCHANGED << claimed_count, webm, poster_img, duration_ms, spawned >>
       ELSE /\ OuterExcept(w, StageError("mp4", MP4_TIMEOUT,
                          "MP4 output file was not created or is empty.", outcome))
            /\ UNCHANGED files
    /\ UNCHANGED << doc, queue, next_job, cache, images,
                    trigger_vars, backfill_vars, reader_vars, run_vars >>

\* cache.delete(...) after the MP4 transaction; then the WebM ffmpeg is started.
Mp4Invalidate(w) ==
    /\ pc[w] = "mp4_invalidate"
    /\ cache' = NoCache
    /\ spawned' = [spawned EXCEPT ![w] = @ \cup {"webm"}]
    /\ pc' = [pc EXCEPT ![w] = "webm_run"]
    /\ UNCHANGED << doc, ledger, queue, next_job, images, files,
                    claimed_count, mp4, webm, poster_img, duration_ms,
                    trigger_vars, backfill_vars, reader_vars, run_vars >>

webm_progress(w, out_time_ms) ==
    /\ pc[w] = "webm_run"
    /\ ledger' = SetProgress(webm[w].pk, ProgressPct(out_time_ms, duration_ms[w]))
    /\ UNCHANGED << doc, queue, next_job, cache, images, files,
                    worker_vars, trigger_vars, backfill_vars, reader_vars, run_vars >>

\* An inner except that marks every row of the document Failed.
WebmFailUpdate_AllRows(id, e) ==
    { [r EXCEPT !.status = FAILED, !.error = Trunc("WebM failed: " \o e, ErrMax)]
      : r \in ledger }

\* The inner except: filter(pk=webm_pk).update(status=FAILED, error=error_msg[:1000], ...)
WebmFailUpdate(id, e) ==
    { IF r.pk = id
      THEN [r EXCEPT !.status = FAILED, !.error = Trunc("WebM failed: " \o e, ErrMax)]
      ELSE r : r \in ledger }

\* The WebM stage ends.  Success: webm is re-read from the table; failure:
\* the inner except records it on the WebM row only.
WebmDone(w, outcome) ==
    /\ pc[w] = "webm_run"
    /\ IF outcome = "ok"
       THEN /\ webm' = [webm EXCEPT ![w] = RowByPk(@.pk)]
            /\ pc' = [pc EXCEPT ![w] = "webm_save"]
            /\ UNCHANGED << ledger, claimed_count, mp4, poster_img, duration_ms, spawned >>
       ELSE /\ ledger' = WebmFailUpdate(webm[w].pk,
                            StageError("webm", WEBM_TIMEOUT,
                               "WebM output file was not created or is empty.", outcome))
            /\ Leave(w, "webm_finally")
    /\ UNCHANGED << doc, queue, next_job, cache, images, files,
                    trigger_vars, backfill_vars, reader_vars, run_vars >>

\* The transaction.atomic() block with webm.file.save and webm.save().
WebmSave(w) ==
    /\ pc[w] = "webm_save"
    /\ files' = files \cup {AvailableName(WEBM)}
    /\ ledger' = SaveObject(ReadyObject(webm[w], AvailableName(WEBM), poster_img[w]))
    /\ Leave(w, "webm_finally")
    /\ UNCHANGED << doc, queue, next_job, cache, images,
                    trigger_vars, backfill_vars, reader_vars, run_vars >>

\* finally: cache.delete(...); the job returns normally.
WebmFinally(w) ==
    /\ pc[w] = "webm_finally"
    /\ cache' = NoCache
    /\ EndJob(w)
    /\ UNCHANGED << doc, ledger, queue, next_job, images, files,
                    trigger_vars, backfill_vars, reader_vars, run_vars >>

\* The cache.delete of _fail_all, after which the exception is re-raised.
FailAllInvalidate(w) ==
    /\ pc[w] = "fail_all_invalidate"
    /\ cache' = NoCache
    /\ EndJob(w)
    /\ UNCHANGED << doc, ledger, queue, next_job, images, files,
                    trigger_vars, backfill_vars, reader_vars, run_vars >>

(* ------------- media_derivatives_tags.py: hero_video_sources ----------- *)
FileUrl(name) == IF name = "" THEN "" ELSE "/media/" \o name
PosterUrl(img) == IF img = 0 THEN "" ELSE "/media/original_images/" \o ToString(img) \o ".jpg"

\* qs.filter(kind=kind).first() over the READY rows
ReadyRow(kind) ==
    IF \E r \in ledger : r.kind = kind /\ r.status = READY
    THEN CHOOSE r \in ledger : r.kind = kind /\ r.status = READY ELSE NoRow

\* The dict built from the READY rows.
SourcesView ==
    LET w == ReadyRow(WEBM)
        m == ReadyRow(MP4)
        poster == IF w # NoRow /\ w.poster_image # 0 THEN w.poster_image
                  ELSE IF m # NoRow THEN m.poster_image ELSE 0
    IN  [webm |-> IF w # NoRow THEN FileUrl(w.file) ELSE "",
         mp4 |-> IF m # NoRow THEN FileUrl(m.file) ELSE "",
         poster |-> PosterUrl(poster)]

\* cached = cache.get(key): a hit returns it (cache[1]) and the call is over.
ReaderGet ==
    /\ pc_rd = "idle"
    /\ pc_rd' = IF cache # NoCache THEN "idle" ELSE "query"
    /\ UNCHANGED data
    /\ UNCHANGED << doc, ledger, queue, next_job, cache, images, files,
                    trigger_vars, backfill_vars, worker_vars, run_vars >>

ReaderQuery ==
    /\ pc_rd = "query"
    /\ data' = SourcesView
    /\ pc_rd' = "set"
    /\ UNCHANGED << doc, ledger, queue, next_job, cache, images, files,
                    trigger_vars, backfill_vars, worker_vars, run_vars >>

\* cache.set(key, data, timeout=600); return data
ReaderSet ==
    /\ pc_rd = "set"
    /\ cache' = <<data>>
    /\ pc_rd' = "idle"
    /\ data' = EmptyView
    /\ UNCHANGED << doc, ledger, queue, next_job, images, files,
                    trigger_vars, backfill_vars, worker_vars, run_vars >>

(* --------------------- views.py: derivatives_status -------------------- *)
derivatives_status ==
    { [kind |-> r.kind, status |-> r.status, progress |-> r.progress,
       error |-> r.error, rq_job_id |-> r.rq_job_id,
       file_url |-> FileUrl(r.file), poster_url |-> PosterUrl(r.poster_image)]
      : r \in ledger }

(* --------------------- worker.py: _run_with_progress ------------------- *)
\* One call is followed from the return of subprocess.Popen.  Time is counted
\* in polling intervals: `now` is now - start, advanced by time.sleep(0.1).
\* The heartbeat print and the `tail` deque (debug text only) are left out.

\* What the child may write on its stdout (stderr is merged into it).
Streams == { "", "out_time_ms=2\n", "frame=1\nout_time_ms=4\n",
             "out_time_ms=2\nout_time_ms=4\n",
             " out_time_ms=6 \nout_time_ms=x\n", "out_time_ms=8" }

\* line.strip() for the blanks used above
RECURSIVE LStrip(_)
LStrip(s) == IF Len(s) > 0 /\ SubSeq(s, 1, 1) = " " THEN LStrip(SubSeq(s, 2, Len(s))) ELSE s

RECURSIVE RStrip(_)
RStrip(s) ==
    IF Len(s) > 0 /\ SubSeq(s, Len(s), Len(s)) = " "
    THEN RStrip(SubSeq(s, 1, Len(s) - 1)) ELSE s

strip(s) == RStrip(LStrip(s))

ProgressPrefix == "out_time_ms="

\* _PROGRESS_RE.match(line): ^out_time_ms=(\d+)$
IsProgressLine(line) ==
    /\ Len(line) > Len(ProgressPrefix)
    /\ SubSeq(line, 1, Len(ProgressPrefix)) = ProgressPrefix
    /\ \A i \in (Len(ProgressPrefix) + 1)..Len(line) : SubSeq(line, i, i) \in Digits

\* int(m.group(1))
ProgressValue(line) == DigitsVal(SubSeq(line, Len(ProgressPrefix) + 1, Len(line)), 0)

\* Position of the first "\n" of buf, 0 when there is none.
FirstNewline(buf) ==
    LET nl == { i \in 1..Len(buf) : SubSeq(buf, i, i) = "\n" }
    IN  IF nl = {} THEN 0 ELSE CHOOSE i \in nl : \A j \in nl : i <= j

\* _process_buffer: the complete lines are taken off the buffer; each one that
\* matches after strip() is handed to on_out_time_ms.  The result is the
\* buffer left over and the values handed over, in order.
RECURSIVE _process_buffer(_, _)
_process_buffer(buf, calls) ==
    LET n == FirstNewline(buf) IN
    IF n = 0 THEN [buffer |-> buf, calls |-> calls]
    ELSE LET line == strip(SubSeq(buf, 1, n - 1))
         IN  _process_buffer(SubSeq(buf, n + 1, Len(buf)),
                             IF IsProgressLine(line)
                             THEN Append(calls, ProgressValue(line)) ELSE calls)

\* The state just after Popen, for a call with the given timeout and child.
InitRun ==
    /\ InitPipeline
    /\ run_at = "top" /\ now = 0
    /\ timeout_ticks \in 1..MaxTimeout
    /\ proc = "running" /\ returncode = 0 /\ reaped = FALSE
    /\ stream \in Streams
    /\ pipe = "" /\ buffer = "" /\ sink = <<>> /\ raised = ""
    /\ in_time = FALSE /\ output = stream

\* The child writes some more of its output.
ProcWrite(n) ==
    /\ run_at \in {"top", "read", "poll"}
    /\ proc = "running"
    /\ n \in 1..Len(stream)
    /\ pipe' = pipe \o SubSeq(stream, 1, n)
    /\ stream' = SubSeq(stream, n + 1, Len(stream))
    /\ UNCHANGED << run_at, now, timeout_ticks, proc, returncode, reaped,
                    buffer, sink, raised, in_time, output, pipeline_vars >>

\* The child exits with status rc once it has written its output.  The
\* clock is read at the top of every iteration only, and an iteration takes
\* 0.1 s plus the time of its own work, so timeout_seconds falls between the
\* reading numbered timeout_ticks and the next one: an exit before that
\* reading is before the deadline (within = TRUE), a later one may be on
\* either side of it.
ProcExit(rc, within) ==
    /\ run_at \in {"top", "read", "poll"}
    /\ proc = "running"
    /\ stream = ""
    /\ (now < timeout_ticks \/ (now = timeout_ticks /\ run_at = "top")) => within
    /\ proc' = "exited"
    /\ returncode' = rc
    /\ in_time' = within
    /\ UNCHANGED << run_at, now, timeout_ticks, reaped, stream, pipe,
                    buffer, sink, raised, output, pipeline_vars >>

\* _kill_and_raise(msg): proc.kill(), proc.wait(timeout=2), raise RuntimeError;
\* the finally clause closes proc.stdout.
_kill_and_raise(msg) ==
    /\ proc' = IF proc = "running" THEN "killed" ELSE proc
    /\ reaped' = TRUE
    /\ raised' = msg
    /\ run_at' = "raised"

\* An exception leaving on_out_time_ms passes through _process_buffer and
\* the loop; only the finally clause (proc.stdout.close()) runs.
SinkRaises ==
    /\ raised' = "sink"
    /\ run_at' = "raised"

\* A timeout test that allows one more polling interval.
LoopTop_LateTest ==
    /\ run_at = "top"
    /\ IF now > timeout_ticks + 1
       THEN /\ _kill_and_raise("timed out after " \o ToString(timeout_ticks))
            /\ UNCHANGED returncode
       ELSE /\ run_at' = "read"
            /\ UNCHANGED << proc, returncode, reaped, raised >>
    /\ UNCHANGED << now, timeout_ticks, stream, pipe, buffer, sink, in_time,
                    output, pipeline_vars >>

\* Top of the loop: the timeout test.
LoopTop ==
    /\ run_at = "top"
    /\ IF now > timeout_ticks
       THEN /\ _kill_and_raise("timed out after " \o ToString(timeout_ticks))
            /\ UNCHANGED returncode
       ELSE /\ run_at' = "read"
            /\ UNCHANGED << proc, returncode, reaped, raised >>
    /\ UNCHANGED << now, timeout_ticks, stream, pipe, buffer, sink, in_time,
                    output, pipeline_vars >>

\* What the child has written so far, and what os.read has returned so far.
Written == SubSeq(output, 1, Len(output) - Len(stream))
Received == SubSeq(Written, 1, Len(Written) - Len(pipe))

\* The positions of the "\n" characters of a text.
Newlines(text) == { i \in 1..Len(text) : SubSeq(text, i, i) = "\n" }

\* The complete line of the text that ends at the newline in position i, as
\* _process_buffer sees it: decoded and stripped.
LineEndingAt(text, i) ==
    LET before == { j \in Newlines(text) : j < i }
        from == IF before = {} THEN 1
                ELSE 1 + CHOOSE j \in before : \A k \in before : k <= j
    IN  strip(SubSeq(text, from, i - 1))

\* The values of the complete lines of a text that match _PROGRESS_RE, in the
\* order of the lines.
ProgressLines(text) ==
    LET at == { i \in Newlines(text) : IsProgressLine(LineEndingAt(text, i)) }
        nth(k) == CHOOSE i \in at : Cardinality({ j \in at : j <= i }) = k
    IN  [ k \in 1..Cardinality(at) |-> ProgressValue(LineEndingAt(text, nth(k))) ]

\* What follows the last "\n" of a text: the line still incomplete.
Incomplete(text) ==
    IF Newlines(text) = {} THEN text
    ELSE SubSeq(text, 1 + (CHOOSE i \in Newlines(text) : \A j \in Newlines(text) : j <= i),
                Len(text))

\* A read that splits the new chunk into lines without the bytes kept from
\* the chunks before it.
ReadChunk_ForgetsBuffer(fails) ==
    /\ run_at = "read"
    /\ LET done == _process_buffer(pipe, <<>>) IN
       IF pipe # "" /\ done.calls # <<>> /\ fails
       THEN /\ SinkRaises
            /\ pipe' = ""
            /\ UNCHANGED << buffer, sink >>
       ELSE /\ ~fails
            /\ pipe' = ""
            /\ buffer' = IF pipe = "" THEN buffer ELSE done.buffer
            /\ sink' = IF pipe = "" THEN sink ELSE sink \o done.calls
            /\ run_at' = "poll"
            /\ UNCHANGED raised
    /\ UNCHANGED << now, timeout_ticks, proc, returncode, reaped, stream, in_time,
                    output, pipeline_vars >>

\* os.read(fd, 4096) on the non-blocking pipe, then _process_buffer().  When
\* the callback is called it may raise (fails = TRUE).
ReadChunk(fails) ==
    /\ run_at = "read"
    /\ LET done == _process_buffer(buffer \o pipe, <<>>) IN
       IF pipe # "" /\ done.calls # <<>> /\ fails
       THEN /\ SinkRaises
            /\ pipe' = ""
            /\ UNCHANGED << buffer, sink >>
       ELSE /\ ~fails
            /\ pipe' = ""
            /\ buffer' = IF pipe = "" THEN buffer ELSE done.buffer
            /\ sink' = IF pipe = "" THEN sink ELSE sink \o done.calls
            /\ run_at' = "poll"
            /\ UNCHANGED raised
    /\ UNCHANGED << now, timeout_ticks, proc, returncode, reaped, stream, in_time,
                    output, pipeline_vars >>

\* rc = proc.poll().  Still running: time.sleep(0.1).  Exited: the pipe is
\* drained, _process_buffer() runs once more, and the call returns (rc = 0)
\* or goes through _kill_and_raise (rc # 0).
Poll(fails) ==
    /\ run_at = "poll"
    /\ IF proc = "running"
       THEN /\ ~fails
            /\ now' = now + 1
            /\ run_at' = "top"
            /\ UNCHANGED << proc, returncode, reaped, pipe, buffer, sink, raised >>
       ELSE LET done == _process_buffer(buffer \o pipe, <<>>) IN
            /\ pipe' = ""
            /\ UNCHANGED << now, returncode >>
            /\ IF done.calls # <<>> /\ fails
               THEN /\ SinkRaises
                    /\ reaped' = TRUE
                    /\ UNCHANGED << proc, buffer, sink >>
               ELSE /\ ~fails
                    /\ buffer' = done.buffer
                    /\ sink' = sink \o done.calls
                    /\ IF returncode # 0
                       THEN _kill_and_raise("failed (exit " \o ToString(returncode) \o ")")
                       ELSE /\ run_at' = "returned"
                            /\ reaped' = TRUE
                            /\ UNCHANGED << proc, raised >>
    /\ UNCHANGED << timeout_ticks, stream, in_time, output, pipeline_vars >>

(* --------------------------- specification ----------------------------- *)
Next ==
    \/ \E p \in DocPaths : DocumentSave(p)
    \/ TriggerEnsureMp4
    \/ TriggerEnsureWebm
    \/ TriggerEnqueue
    \/ TriggerStamp
    \/ \E dry \in BOOLEAN : BackfillScan(dry)
    \/ BackfillCreateMp4
    \/ BackfillCreateWebm
    \/ BackfillCheck
    \/ BackfillStamp
    \/ BackfillDone
    \/ \E w \in Workers : Start(w)
    \/ \E w \in Workers : Claim(w)
    \/ \E w \in Workers : Fetch(w)
    \/ \E w \in Workers : PathCheck(w)
    \/ \E w \in Workers, res \in ProbeResults : ProbeReturn(w, res)
    \/ \E w \in Workers : JobTimeout(w)
    \/ \E w \in Workers, o \in Outcomes : PosterDone(w, o)
    \/ \E w \in Workers, t \in OutTimes : mp4_progress(w, t)
    \/ \E w \in Workers, o \in Outcomes : Mp4Done(w, o)
    \/ \E w \in Workers : Mp4Invalidate(w)
    \/ \E w \in Workers, t \in OutTimes : webm_progress(w, t)
    \/ \E w \in Workers, o \in Outcomes : WebmDone(w, o)
    \/ \E w \in Workers : WebmSave(w)
    \/ \E w \in Workers : WebmFinally(w)
    \/ \E w \in Workers : FailAllInvalidate(w)

Spec == Init /\ [][Next]_vars

\* The same program with page renders calling hero_video_sources.
NextRender ==
    \/ Next
    \/ ReaderGet
    \/ ReaderQuery
    \/ ReaderSet

SpecRender == Init /\ [][NextRender]_vars

\* The steps of a job that do not wait on anything outside the worker, the
\* ends of the three ffmpeg stages, which _run_with_progress brings about
\* within timeout_seconds whatever the child does, and the job timeout.  The
\* return of ffprobe is not among them: check_output is called without a
\* timeout.
JobStep(w) ==
    \/ Claim(w)
    \/ Fetch(w)
    \/ PathCheck(w)
    \/ JobTimeout(w)
    \/ \E outcome \in Outcomes : PosterDone(w, outcome)
    \/ \E outcome \in Outcomes : Mp4Done(w, outcome)
    \/ Mp4Invalidate(w)
    \/ \E outcome \in Outcomes : WebmDone(w, outcome)
    \/ WebmSave(w)
    \/ WebmFinally(w)
    \/ FailAllInvalidate(w)

\* The pipeline with worker processes that keep running.
SpecLive == Init /\ [][Next]_vars /\ \A w \in Workers : WF_vars(JobStep(w))

\* One call of _run_with_progress and its child process.
NextRun ==
    \/ \E n \in 1..MaxWrite : ProcWrite(n)
    \/ \E rc \in {0, 1}, within \in BOOLEAN : ProcExit(rc, within)
    \/ LoopTop
    \/ \E fails \in BOOLEAN : ReadChunk(fails)
    \/ \E fails \in BOOLEAN : Poll(fails)

SpecRun == InitRun /\ [][NextRun]_vars

TypeOK ==
    /\ \A r \in ledger : r.status \in Status /\ r.kind \in Kinds
    /\ \A w \in Workers : pc[w] \in {"idle", "claim", "fetch", "path_check",
          "probing", "poster_run", "mp4_run", "mp4_invalidate", "webm_run", "webm_save", "webm_finally",
          "fail_all_invalidate"}
    /\ pc_bf \in {"idle", "create_mp4", "create_webm", "check", "stamp", "done"}
    /\ queued \in {0, 1} /\ skipped \in {0, 1} /\ queued + skipped <= 1

(* ------------------------------ properties ----------------------------- *)
\* Positions of a job that has claimed rows and has not yet recorded an
\* outcome for all of them.
Holding == {"fetch", "path_check", "probing", "poster_run", "mp4_run",
            "mp4_invalidate", "webm_run", "webm_save"}

\* Positions of a job of which only the closing cache.delete is left.
Closing == {"webm_finally", "fail_all_invalidate"}

\* C1: whenever a job that claimed at least one row finishes (returns or
\* raises) while no other job holds a claim, no row of the document is left
\* in Processing.
C1_NoRowLeftProcessing ==
    [][\A w \in Workers :
          ( /\ pc[w] \in Holding \cup Closing
            /\ pc'[w] = "idle"
            /\ \A v \in Workers \ {w} : pc[v] \notin Holding )
          => \A r \in ledger' : r.status # PROCESSING]_vars

\* C2: a row that is Ready keeps its status, progress, output file and
\* poster reference in every later step.
C2_ReadyRowUntouched ==
    [][\A r \in ledger : r.status = READY =>
          \E r2 \in ledger' : /\ r2.pk = r.pk
                              /\ r2.status = r.status
                              /\ r2.progress = r.progress
                              /\ r2.file = r.file
                              /\ r2.poster_image = r.poster_image]_vars

C4_FatalStageFailsBoth ==
    [][\A w \in Workers :
          /\ ( /\ pc[w] \in {"poster_run", "mp4_run"}
               /\ pc'[w] = "fail_all_invalidate"
               /\ claimed_count[w] = 2 )
             => /\ \A k \in Kinds : \E r \in ledger' :
                      r.kind = k /\ r.status = FAILED /\ r.error # ""
                /\ "webm" \notin spawned[w]
                /\ (pc[w] = "poster_run" => "mp4" \notin spawned[w])
          /\ pc[w] = "fail_all_invalidate"
             => pc'[w] \in {"fail_all_invalidate", "idle"} /\ spawned'[w] = {}]_vars

\* A job has just failed in a fatal stage: both rows are Failed with the
\* job-level message and neither has ever had an output file.
C4_Witness ==
    /\ \E w \in Workers : pc[w] = "fail_all_invalidate"
    /\ \A k \in Kinds : \E r \in ledger :
          /\ r.kind = k /\ r.status = FAILED /\ r.file = ""
          /\ Contains(r.error, "Transcode failed: ")

\* C5: when the WebM stage of a job fails (poster and MP4 having succeeded),
\* the step that handles the failure leaves the MP4 row Ready with a non-empty
\* file, the WebM row Failed, and the poster set on both; the job goes on to
\* its normal return, whose last step leaves the ledger as it is.
C5_WebmFailureKeepsMp4 ==
    [][\A w \in Workers :
          /\ (pc[w] = "webm_run" /\ pc'[w] = "webm_finally")
             => /\ \E r \in ledger' : /\ r.kind = MP4 /\ r.status = READY
                                      /\ r.file # "" /\ r.poster_image # 0
                /\ \E r \in ledger' : /\ r.kind = WEBM /\ r.status = FAILED
                                      /\ r.poster_image # 0
          /\ (pc[w] = "webm_finally" /\ pc'[w] # "webm_finally")
             => pc'[w] = "idle" /\ ledger' = ledger]_vars

\* A job is about to return after a WebM failure.
C5_Witness ==
    /\ \E w \in Workers : pc[w] = "webm_finally"
    /\ \E r \in ledger : /\ r.kind = MP4 /\ r.status = READY
                         /\ r.file # "" /\ r.poster_image # 0
    /\ \E r \in ledger : /\ r.kind = WEBM /\ r.status = FAILED
                         /\ r.poster_image # 0 /\ Contains(r.error, "WebM failed: ")

\* C6: when the WebM ffmpeg exits nonzero after a successful MP4 stage, the
\* step that records it leaves MP4 Ready with progress 100 and WebM Failed
\* with progress 0 and an error text containing "failed".
C6_WebmFailedProgressZero ==
    [][\A w \in Workers :
          ( /\ pc[w] = "webm_run" /\ pc'[w] = "webm_finally"
            /\ \E r \in ledger' : r.kind = WEBM /\ Contains(r.error, "(exit 1)") )
          => /\ \E r \in ledger' : r.kind = MP4 /\ r.status = READY /\ r.progress = 100
             /\ \E r \in ledger' : /\ r.kind = WEBM /\ r.status = FAILED
                                   /\ r.progress = 0
                                   /\ Contains(r.error, "failed")]_vars

\* C7: the step that saves the WebM output, at the end of a run in which
\* probe, poster, MP4 and WebM all succeeded, leaves both rows Ready with
\* progress 100, a non-empty file and a poster, as derivatives_status
\* reports them.
C7_SuccessfulRunBothReady ==
    [][\A w \in Workers :
          (pc[w] = "webm_save" /\ pc'[w] = "webm_finally")
          => /\ \A r \in ledger' : /\ r.status = READY /\ r.progress = 100
                                   /\ r.file # "" /\ r.poster_image # 0
             /\ { r.kind : r \in ledger' } = Kinds
             /\ \A d \in derivatives_status' :
                   /\ d.status = READY /\ d.progress = 100
                   /\ d.file_url # "" /\ d.poster_url # ""]_vars

\* A first job over two Pending rows has saved both outputs.
C7_Witness ==
    /\ \E w \in Workers : pc[w] = "webm_finally"
    /\ next_job = 1
    /\ { r.kind : r \in ledger } = Kinds
    /\ \A r \in ledger : /\ r.status = READY /\ r.progress = 100
                         /\ r.file # "" /\ r.poster_image # 0

\* C8: the end of ffprobe, whatever its exit status and output, is followed
\* by the poster stage: the job is not aborted by the probe.
C8_ProbeFailureDoesNotAbort ==
    [][\A w \in Workers :
          pc[w] = "probing" => pc'[w] \in {"probing", "poster_run"}]_vars

\* C9: a job has spawned a subprocess only if the real path of its source
\* file is below the real path of MEDIA_ROOT.
C9_NoSubprocessOutsideRoot ==
    \A w \in Workers :
        spawned[w] # {} =>
            /\ Len(realpath(doc)) > Len(realpath(MEDIA_ROOT))
            /\ SubSeq(realpath(doc), 1, Len(realpath(MEDIA_ROOT))) = realpath(MEDIA_ROOT)

\* A job for a document whose path leaves MEDIA_ROOT has claimed the rows and
\* has ended: no worker is running and nothing was spawned.
C9_Witness ==
    /\ doc # NoDoc
    /\ SubSeq(realpath(doc), 1, Len(realpath(MEDIA_ROOT))) # realpath(MEDIA_ROOT)
    /\ \E r \in ledger : r.status = PROCESSING
    /\ \A w \in Workers : pc[w] = "idle" /\ spawned[w] = {}

\* C10: a worker step that attaches a poster to a row, or moves a row to
\* Ready or to Failed, leaves that worker where its next step is the
\* cache.delete (and not the start of the next stage).
C10_InvalidateAfterEachEvent ==
    [][\A w \in Workers :
          ( /\ pc'[w] # pc[w]
            /\ \E r \in ledger : \E r2 \in ledger' :
                  /\ r2.pk = r.pk
                  /\ \/ r2.poster_image # r.poster_image
                     \/ (r2.status # r.status /\ r2.status \in {READY, FAILED}) )
          => pc'[w] \in {"mp4_invalidate", "webm_finally", "fail_all_invalidate"}]_vars

\* C11: once every job has run its cache.delete and returned and no
\* hero_video_sources call is in progress, the cache entry is absent or is
\* the view of the ledger as it now stands.
C11_CacheAbsentOrCurrent ==
    ( /\ \A w \in Workers : pc[w] = "idle"
      /\ pc_rd = "idle" )
    => (cache = NoCache \/ cache[1] = SourcesView)

\* C12: while the child has written nothing and has not exited by itself, the
\* call is never still polling later than timeout_seconds plus one polling
\* interval after the start: by then the child has been killed and the
\* timed-out failure raised, and the call never returns normally.
C12_SilentChildKilledInTime ==
    ( /\ run_at # "off"
      /\ stream = "" /\ pipe = "" /\ buffer = "" /\ sink = <<>> /\ raised # "sink"
      /\ proc # "exited" )
    => /\ now <= timeout_ticks + 1
       /\ now = timeout_ticks + 1 => run_at \in {"top", "raised"}
       /\ run_at # "returned"
       /\ run_at = "raised" =>
             /\ proc = "killed"
             /\ raised = "timed out after " \o ToString(timeout_ticks)

\* A silent child that never exited has been killed on the timeout.
C12_Witness ==
    /\ run_at = "raised"
    /\ stream = "" /\ pipe = "" /\ buffer = "" /\ sink = <<>>
    /\ proc = "killed" /\ reaped
    /\ now = timeout_ticks + 1
    /\ raised = "timed out after " \o ToString(timeout_ticks)

\* C13: when _run_with_progress has returned or raised, the child process
\* has been reaped.
C13_ChildReapedOnExit ==
    run_at \in {"returned", "raised"} => reaped

\* C14: the ledger never holds two rows of the same kind for the document
\* and profile.
C14_OneRowPerKind ==
    \A k \in Kinds : Cardinality({ r \in ledger : r.kind = k }) <= 1

\* The trigger and a backfill run have both gone through their ensure steps
\* for the same document (the backfill created a row) and two rows exist.
C14_Witness ==
    /\ pc_tr \in {"enqueue", "stamp"}
    /\ pc_bf = "check" /\ created_any
    /\ Cardinality(ledger) = 2

C18_OnlyLegalTransitions ==
    [][\A r \in ledger : \A r2 \in ledger' :
          (r2.pk = r.pk /\ r2.status # r.status)
          => << r.status, r2.status >> \in
                { << PENDING, PROCESSING >>, << FAILED, PROCESSING >>,
                  << PROCESSING, READY >>, << PROCESSING, FAILED >> }]_vars

\* C19: at most one worker at a time is between a claim that changed rows and
\* the recording of the outcome of its last stage.
C19_OneHolderAtATime ==
    Cardinality({ w \in Workers : pc[w] \in Holding }) <= 1

\* A duplicate delivery is about to run its claim update while another
\* worker is encoding for the same document.
C19_Witness ==
    \E w, v \in Workers :
        /\ pc[w] \in {"mp4_run", "webm_run"}
        /\ pc[v] = "claim"
        /\ next_job >= 2

\* C20: a job whose claim update matches no row returns at once: the ledger,
\* the cache entry, the poster images, the stored files and the subprocesses
\* started are what they were.
C20_ZeroClaimNoSideEffects ==
    [][\A w \in Workers :
          (pc[w] = "claim" /\ pc'[w] # "claim" /\ Claimable(ledger) = {})
          => /\ pc'[w] = "idle"
             /\ ledger' = ledger /\ cache' = cache /\ images' = images
             /\ files' = files /\ spawned' = spawned /\ queue' = queue]_vars

\* Two jobs were delivered for a document whose path leaves MEDIA_ROOT and
\* both have ended: the one that claimed was rejected and left the rows in
\* Processing, the other found nothing to claim.
C20_Witness ==
    /\ doc # NoDoc /\ ~InsideMediaRoot(doc)
    /\ next_job = 2 /\ queue = <<>>
    /\ \A w \in Workers : pc[w] = "idle"
    /\ images = 0 /\ files = {} /\ cache = NoCache
    /\ { r.status : r \in ledger } = {PROCESSING}

\* C17: no step of a dry run of the backfill changes the queue or any row's
\* rq_job_id (rows it creates carry none), and the run ends with queued = 1
\* exactly when a run without the flag would go on to enqueue the document:
\* it is a video and rows were created or a row is Pending or Failed.
C17_DryRunOnlyReports ==
    [][((dry_run \/ dry_run') /\ pc_bf' # pc_bf)
       => /\ queue' = queue /\ next_job' = next_job
          /\ \A r \in ledger : \E n \in ledger' :
                n.kind = r.kind /\ n.rq_job_id = r.rq_job_id
          /\ \A n \in ledger' :
                (\A r \in ledger : r.kind # n.kind) => n.rq_job_id = 0
          /\ pc_bf' = "done" =>
                queued' = (IF /\ splitext_ext(basename(doc)) \in VIDEO_EXTS
                              /\ (created_any \/ needs_work)
                           THEN 1 ELSE 0)]_vars

\* A dry run over a video without rows is at its "done" line: it counted
\* queued = 1 and created the rows, nothing is on the queue and no row
\* carries a job id.
C17_Witness ==
    /\ pc_bf = "done" /\ dry_run /\ queued = 1
    /\ queue = <<>> /\ next_job = 0
    /\ ledger # {} /\ \A r \in ledger : r.rq_job_id = 0

\* C21: the step that marks a row Ready leaves the row's rq_job_id as it was
\* in the table just before that step (a stamp made by the trigger or the
\* backfill after the worker loaded the row is still there).
C21_ReadyWriteKeepsJobId ==
    [][\A r \in ledger : \A n \in ledger' :
          (n.pk = r.pk /\ r.status # READY /\ n.status = READY)
          => n.rq_job_id = r.rq_job_id]_vars

\* C22: a row's progress is always in 0..100, does not decrease from one
\* step to the next while the row stays Processing, and is 0 right after
\* the claim update that moves the row to Processing.
C22_ProgressMonotone ==
    [][/\ \A n \in ledger' : n.progress \in 0..100
       /\ \A r \in ledger : \A n \in ledger' :
             n.pk = r.pk =>
                /\ (r.status = PROCESSING /\ n.status = PROCESSING)
                      => n.progress >= r.progress
                /\ (r.status # PROCESSING /\ n.status = PROCESSING)
                      => n.progress = 0]_vars

\* C23: in every state a Processing row has progress at most 99 and a Ready
\* row has progress exactly 100.
C23_ProgressMatchesStatus ==
    \A r \in ledger : /\ r.status = PROCESSING => r.progress <= 99
                      /\ r.status = READY => r.progress = 100

\* C24: in every state a row's error text is non-empty exactly when the row
\* is Failed.
C24_ErrorIffFailed ==
    \A r \in ledger : (r.error # "") <=> (r.status = FAILED)

\* A row that failed in an earlier attempt (its error text was set) has been
\* claimed again and is Processing, next to a Ready row.
C24_Witness ==
    /\ \E r \in ledger : r.status = READY /\ r.error = ""
    /\ \E r \in ledger : r.status = PROCESSING /\ r.error = "" /\ r.poster_image # 0
    /\ \E w \in Workers : pc[w] = "fetch"

\* C25: in every state a row that is not Ready has an empty output file
\* reference.
C25_FileOnlyWhenReady ==
    \A r \in ledger : r.status # READY => r.file = ""

\* C26: within a job each external process is started only after the ones
\* before it (ffprobe, poster, mp4, webm) were started and succeeded, and in
\* every state the WebM row is Ready only if the MP4 row is Ready.
C26_StagesInOrder ==
    /\ \A w \in Workers :
          /\ "poster" \in spawned[w] => "ffprobe" \in spawned[w]
          /\ "mp4" \in spawned[w] => "poster" \in spawned[w]
          /\ "webm" \in spawned[w] => "mp4" \in spawned[w]
          /\ pc[w] = "poster_run" => duration_ms[w] >= 1
          /\ pc[w] = "mp4_run" => poster_img[w] # 0
          /\ pc[w] \in {"webm_run", "webm_save"} =>
                mp4[w].status = READY /\ mp4[w].file \in files
    /\ (\E r \in ledger : r.kind = WEBM /\ r.status = READY)
          => (\E r \in ledger : r.kind = MP4 /\ r.status = READY)

\* A job has run all four processes and is about to save the WebM row; the
\* MP4 row is Ready.
C26_Witness ==
    \E w \in Workers :
       /\ pc[w] = "webm_save"
       /\ spawned[w] = {"ffprobe", "poster", "mp4", "webm"}
       /\ \E r \in ledger : r.kind = MP4 /\ r.status = READY

\* C27: while a job's MP4 encode runs (the poster stage has
\* succeeded), both rows of the job carry the job's new poster and are
\* Processing, and through the encode stages the status view shows a poster
\* URL on every kind.
C27_PosterAttachedWhileProcessing ==
    \A w \in Workers :
       /\ pc[w] = "mp4_run" =>
             \A r \in ledger : Mine(w, r) =>
                /\ r.poster_image = poster_img[w] /\ poster_img[w] # 0
                /\ r.status = PROCESSING
       /\ pc[w] \in {"mp4_run", "mp4_invalidate", "webm_run", "webm_save"} =>
             \A v \in derivatives_status : v.poster_url # ""

\* C28: the call returns normally only when the child exited with status 0;
\* when the child exited with status 0 before the deadline the call (unless
\* its callback raised) returns normally and does not raise the timed-out
\* failure; when the child exited with a nonzero status the call raises.
C28_ReturnsIffExitZero ==
    /\ run_at = "returned" => proc = "exited" /\ returncode = 0
    /\ ( /\ run_at \in {"returned", "raised"} /\ raised # "sink"
         /\ proc = "exited" /\ returncode = 0 /\ in_time )
       => run_at = "returned"
    /\ ( /\ run_at \in {"returned", "raised"}
         /\ proc = "exited" /\ returncode # 0 )
       => run_at = "raised"

\* C29: a job that has claimed rows and waits for one of its external
\* processes (ffprobe, poster, mp4, webm) ends, and once it has ended and no
\* other job holds a claim no row is Processing, even when that process
\* never exits by itself.
C29_ClaimedJobTerminates ==
    \A w \in Workers :
       (pc[w] \in {"probing", "poster_run", "mp4_run", "webm_run"}) ~>
          ( /\ pc[w] = "idle"
            /\ (\A v \in Workers : pc[v] \notin Holding)
                  => \A r \in ledger : r.status # PROCESSING )

\* C30: as long as no callback has raised, the values handed to the sink are
\* exactly the values of the complete matching lines of the bytes read so
\* far, in order, however the bytes were split into chunks, and the buffer
\* holds the incomplete last line; when the call ends after the child's own
\* exit (normal return or nonzero-exit failure) every byte the child wrote
\* has been read.
C30_SinkCallsFollowLines ==
    (run_at # "off" /\ raised # "sink") =>
       /\ sink = ProgressLines(Received)
       /\ buffer = Incomplete(Received)
       /\ ( \/ run_at = "returned"
            \/ raised = "failed (exit " \o ToString(returncode) \o ")" )
          => /\ Received = output
             /\ sink = ProgressLines(output)

\* The first of two progress lines has been handed to the sink and a chunk
\* has ended inside the second line.
C30_Witness ==
    /\ output = "out_time_ms=2\nout_time_ms=4\n"
    /\ run_at = "poll" /\ proc = "running"
    /\ sink = << 2 >>
    /\ buffer # "" /\ Newlines(buffer) = {}

====
